---- MODULE Spec2Model ----
(***************************************************************************)
(* Model of the conversation controller of src/components/ChatInterface.tsx *)
(* (load on mount, send-message flow, response generator) together with    *)
(* the message store it talks to.                                          *)
(*                                                                         *)
(* Strings are sequences of text pieces.  Text typed by the user is a      *)
(* sequence of one-character pieces, so that trim(), toLowerCase(),        *)
(* includes() and length are computed character by character; the canned   *)
(* replies of the response generator are never inspected by the            *)
(* controller and are kept as one piece each.                              *)
(***************************************************************************)
EXTENDS Integers, Sequences, FiniteSets, TLC

\* ------------------------------------------------------------------ bounds
\* sendMessage is invoked at most MaxRequests times in a session.
MaxRequests == 2

\* ----------------------------------------------------------------- strings
UpperCase == <<"A","B","C","D","E","F","G","H","I","J","K","L","M",
               "N","O","P","Q","R","S","T","U","V","W","X","Y","Z">>
LowerCase == <<"a","b","c","d","e","f","g","h","i","j","k","l","m",
               "n","o","p","q","r","s","t","u","v","w","x","y","z">>

\* The characters String.prototype.trim() strips that occur in the inputs.
WhiteSpace == {" ", "\t", "\n", "\r"}

LowerChar(c) ==
    IF \E i \in 1..Len(UpperCase) : UpperCase[i] = c
    THEN LowerCase[CHOOSE i \in 1..Len(UpperCase) : UpperCase[i] = c]
    ELSE c

\* String.prototype.toLowerCase()
ToLowerCase(s) == [i \in 1..Len(s) |-> LowerChar(s[i])]

\* String.prototype.includes(sub)
Includes(s, sub) ==
    \E i \in 1..(Len(s) - Len(sub) + 1) : SubSeq(s, i, i + Len(sub) - 1) = sub

RECURSIVE TrimStart(_)
TrimStart(s) ==
    IF s # <<>> /\ Head(s) \in WhiteSpace THEN TrimStart(Tail(s)) ELSE s

RECURSIVE TrimEnd(_)
TrimEnd(s) ==
    IF s # <<>> /\ s[Len(s)] \in WhiteSpace
    THEN TrimEnd(SubSeq(s, 1, Len(s) - 1))
    ELSE s

\* String.prototype.trim()
Trim(s) == TrimEnd(TrimStart(s))

\* ------------------------------------------------------ response generator
responses == <<
    <<"That's an interesting question! Let me think about that...">>,
    <<"I understand what you're asking. Here's my perspective on that:">>,
    <<"Great question! Based on what you've shared, I would suggest:">>,
    <<"That's a thoughtful inquiry. Let me provide some insights:">>,
    <<"I appreciate you asking that. Here's what I think:">> >>

\* The values Math.floor(Math.random() * responses.length) can take, as
\* 1-based indexes into responses.
RandomIndexes == 1..Len(responses)

Hello == <<"h","e","l","l","o">>
Hi == <<"h","i">>
HowAreYou == <<"h","o","w"," ","a","r","e"," ","y","o","u">>
WhatCanYouDo == <<"w","h","a","t"," ","c","a","n"," ","y","o","u"," ","d","o">>

GreetingReply == <<"Hello! I'm your AI assistant. How can I help you today?">>
HowAreYouReply ==
    <<"I'm doing well, thank you for asking! I'm here and ready to help with any questions or tasks you have.">>
WhatCanYouDoReply ==
    <<"I can help you with a wide variety of tasks including answering questions, providing explanations, helping with creative writing, solving problems, and having conversations on many topics. What would you like to explore?">>
DetailedClause ==
    <<"You've shared quite a detailed message, and I appreciate the context.">>
ShortClause == <<"Thanks for sharing that with me.">>

LengthThreshold == 50

\* generateAIResponse with the "how are you" test moved before the greeting test.
generateAIResponseReordered(userMessage, r) ==
    LET randomResponse == responses[r]
        lower == ToLowerCase(userMessage)
    IN  IF Includes(lower, HowAreYou)
        THEN HowAreYouReply
        ELSE IF Includes(lower, Hello) \/ Includes(lower, Hi)
        THEN GreetingReply
        ELSE IF Includes(lower, WhatCanYouDo)
        THEN WhatCanYouDoReply
        ELSE randomResponse \o <<" ">> \o
             (IF Len(userMessage) > LengthThreshold
              THEN DetailedClause ELSE ShortClause)

\* generateAIResponse with the "what can you do" test moved before the
\* "how are you" test.
generateAIResponseSwapped(userMessage, r) ==
    LET randomResponse == responses[r]
        lower == ToLowerCase(userMessage)
    IN  IF Includes(lower, Hello) \/ Includes(lower, Hi)
        THEN GreetingReply
        ELSE IF Includes(lower, WhatCanYouDo)
        THEN WhatCanYouDoReply
        ELSE IF Includes(lower, HowAreYou)
        THEN HowAreYouReply
        ELSE randomResponse \o <<" ">> \o
             (IF Len(userMessage) > LengthThreshold
              THEN DetailedClause ELSE ShortClause)

\* generateAIResponse with userMessage.length >= 50.
generateAIResponseOffByOne(userMessage, r) ==
    LET randomResponse == responses[r]
        lower == ToLowerCase(userMessage)
    IN  IF Includes(lower, Hello) \/ Includes(lower, Hi)
        THEN GreetingReply
        ELSE IF Includes(lower, HowAreYou)
        THEN HowAreYouReply
        ELSE IF Includes(lower, WhatCanYouDo)
        THEN WhatCanYouDoReply
        ELSE randomResponse \o <<" ">> \o
             (IF Len(userMessage) >= LengthThreshold
              THEN DetailedClause ELSE ShortClause)

\* generateAIResponse(userMessage); r is the index Math.random() selected.
generateAIResponse(userMessage, r) ==
    LET randomResponse == responses[r]
        lower == ToLowerCase(userMessage)
    IN  IF Includes(lower, Hello) \/ Includes(lower, Hi)
        THEN GreetingReply
        ELSE IF Includes(lower, HowAreYou)
        THEN HowAreYouReply
        ELSE IF Includes(lower, WhatCanYouDo)
        THEN WhatCanYouDoReply
        ELSE randomResponse \o <<" ">> \o
             (IF Len(userMessage) > LengthThreshold
              THEN DetailedClause ELSE ShortClause)

\* ------------------------------------------------------------------ inputs
\* The values the input field is given (onChange sets the whole value).
EmptyText == <<>>
BlankText == <<" ", "\t">>
HelloThere == <<"H","e","l","l","o"," ","t","h","e","r","e">>
PaddedOk == <<" ","o","k"," ">>
ShoutedHello ==
    <<"H","E","L","L","O"," ","h","o","w"," ","a","r","e"," ","y","o","u">>

Texts == {EmptyText, BlankText, HelloThere, PaddedOk, ShoutedHello}

\* ------------------------------------------------------------------- store
\* useAuth().user.id of this session, and the id of some other account.
user == "u1"
OtherUser == "u2"

\* A row of the messages table (interface Message plus the user_id column).
Row(id, uid, role, content, createdAt) ==
    [id |-> id, user_id |-> uid, role |-> role, content |-> content,
     created_at |-> createdAt]

\* The value of a variable that holds no message yet.
NoMsg == Row(0, "", "", <<>>, 0)

\* Table contents a session can start from: nothing, rows of another account
\* only, and rows of both accounts whose ids do not follow creation order.
EmptyStore == {}
OtherOnlyStore == {Row(4, OtherUser, "user", <<"y","o">>, 1)}
MixedStore ==
    {Row(7, user, "user", <<"o","k">>, 2),
     Row(5, OtherUser, "user", <<"y","o">>, 3),
     Row(3, user, "assistant", responses[1] \o <<" ">> \o ShortClause, 4)}
InitStores == {EmptyStore, OtherOnlyStore, MixedStore}

Max(S) == CHOOSE x \in S : \A y \in S : y <= x

\* Identifier and timestamp the store assigns to the next inserted row.
NextId(rows) == IF rows = {} THEN 1 ELSE 1 + Max({r.id : r \in rows})
Now(rows) == IF rows = {} THEN 1 ELSE 1 + Max({r.created_at : r \in rows})

\* A store that lets every session read every row.
VisibleToAll(uid, rows) == rows

\* The rows the store lets a session of account uid read.
VisibleTo(uid, rows) == {r \in rows : r.user_id = uid}

\* .order('created_at', { ascending: false })
RECURSIVE OrderDescending(_)
OrderDescending(rows) ==
    IF rows = {} THEN <<>>
    ELSE LET first == CHOOSE r \in rows :
                          \A q \in rows : r.created_at >= q.created_at
         IN  <<first>> \o OrderDescending(rows \ {first})

\* .order('created_at', { ascending: true })
RECURSIVE OrderAscending(_)
OrderAscending(rows) ==
    IF rows = {} THEN <<>>
    ELSE LET first == CHOOSE r \in rows :
                          \A q \in rows : r.created_at <= q.created_at
         IN  <<first>> \o OrderAscending(rows \ {first})

\* The updater prev => [msg, ...prev].
PrependMessage(prev, msg) == <<msg>> \o prev

\* The updater prev => [...prev, msg] given to setMessages.
AppendMessage(prev, msg) == Append(prev, msg)

\* if (!input || loading) return;
SendRejectedNoTrim(in, busy) == in = <<>> \/ busy

\* if (!input.trim() || loading) return;
SendRejected(in, busy) == Trim(in) = <<>> \/ busy

\* ------------------------------------------------------------------- state
VARIABLES
    messages,         \* useState<Message[]>([])
    input,            \* useState('')
    loading,          \* useState(false): a send is in progress
    loadingMessages,  \* useState(true): the initial load is in progress
    toasts,           \* descriptions of the toasts raised so far
    consoleLog,       \* first arguments of the console.error calls so far
    store,            \* rows of the messages table
    load,             \* the loadMessages call: position and reply
    sends,            \* the accepted sendMessage calls: position and locals
    storeLog,         \* history: the insert requests the store has answered
    nReq,             \* history: sendMessage invocations so far
    lastReq,          \* history: the last invocation and its outcome
    atAccept          \* history: snapshot taken when the last send was accepted

vars == <<messages, input, loading, loadingMessages, toasts, consoleLog,
          store, load, sends, storeLog, nReq, lastReq, atAccept>>

NoReply == [data |-> NoMsg, error |-> FALSE]

NoReq == [kind |-> "empty", busy |-> FALSE, accepted |-> FALSE]

\* What the input field held at an invocation of sendMessage.
Kind(text) ==
    IF text = <<>> THEN "empty"
    ELSE IF Trim(text) = <<>> THEN "whitespace" ELSE "text"

Snapshot ==
    [messages |-> messages, mine |-> VisibleTo(user, store),
     toasts |-> toasts, storeLog |-> Len(storeLog), input |-> input]

Init ==
    /\ messages = <<>>
    /\ input = <<>>
    /\ loading = FALSE
    /\ loadingMessages = TRUE
    /\ toasts = <<>>
    /\ consoleLog = <<>>
    /\ store \in InitStores
    /\ load = [pc |-> "mounted", data |-> <<>>, error |-> FALSE]
    /\ sends = <<>>
    /\ storeLog = <<>>
    /\ nReq = 0
    /\ lastReq = NoReq
    /\ atAccept = [messages |-> <<>>, mine |-> {}, toasts |-> <<>>,
                   storeLog |-> 0, input |-> <<>>]

\* ------------------------------------------------------------ loadMessages
\* useEffect(() => { loadMessages(); }, []): the select request is issued.
LoadMessages ==
    /\ load.pc = "mounted"
    /\ load' = [load EXCEPT !.pc = "awaiting"]
    /\ UNCHANGED <<messages, input, loading, loadingMessages, toasts,
                   consoleLog, store, sends, storeLog, nReq,
                   lastReq, atAccept>>

\* The store answers the select with the rows the session may read, ordered.
StoreSelect ==
    /\ load.pc = "awaiting"
    /\ load' = [pc |-> "replied",
                data |-> OrderAscending(VisibleTo(user, store)),
                error |-> FALSE]
    /\ UNCHANGED <<messages, input, loading, loadingMessages, toasts,
                   consoleLog, store, sends, storeLog, nReq,
                   lastReq, atAccept>>

\* The store answers the select with an error.
StoreSelectError ==
    /\ load.pc = "awaiting"
    /\ load' = [pc |-> "replied", data |-> <<>>, error |-> TRUE]
    /\ UNCHANGED <<messages, input, loading, loadingMessages, toasts,
                   consoleLog, store, sends, storeLog, nReq,
                   lastReq, atAccept>>

\* loadMessages with setLoadingMessages(false) at the end of the try block.
LoadResumeNoFinally ==
    /\ load.pc = "replied"
    /\ load' = [load EXCEPT !.pc = "done"]
    /\ IF load.error
       THEN /\ consoleLog' = Append(consoleLog, "Error loading messages:")
            /\ toasts' = Append(toasts, "Failed to load messages")
            /\ UNCHANGED <<messages, loadingMessages>>
       ELSE /\ messages' = load.data
            /\ loadingMessages' = FALSE
            /\ UNCHANGED <<consoleLog, toasts>>
    /\ UNCHANGED <<input, loading, store, sends, storeLog, nReq,
                   lastReq, atAccept>>

\* loadMessages after its await: try / catch / finally.
LoadResume ==
    /\ load.pc = "replied"
    /\ load' = [load EXCEPT !.pc = "done"]
    /\ IF load.error
       THEN /\ consoleLog' = Append(consoleLog, "Error loading messages:")
            /\ toasts' = Append(toasts, "Failed to load messages")
            /\ UNCHANGED messages
       ELSE /\ messages' = load.data
            /\ UNCHANGED <<consoleLog, toasts>>
    /\ loadingMessages' = FALSE
    /\ UNCHANGED <<input, loading, store, sends, storeLog, nReq,
                   lastReq, atAccept>>

\* A component that renders the chat screen while the load is outstanding.
ControlsRenderedAlways == TRUE

\* if (loadingMessages) return <loading screen>: the input and the send
\* button exist only once the load has finished.
ControlsRendered == ~loadingMessages

\* ------------------------------------------------------------------ typing
\* <Input onChange={(e) => setInput(e.target.value)} disabled={loading} />,
\* rendered only once the loading screen is gone.
Type(t) ==
    /\ ControlsRendered
    /\ ~loading
    /\ t # input
    /\ input' = t
    /\ UNCHANGED <<messages, loading, loadingMessages, toasts, consoleLog,
                   store, load, sends, storeLog, nReq, lastReq,
                   atAccept>>

\* ------------------------------------------------------------- sendMessage
NewSend(text) ==
    [pc |-> "user_sent", userMessage |-> text, userMsg |-> NoMsg,
     aiResponse |-> <<>>, assistantMsg |-> NoMsg, reply |-> NoReply]

\* sendMessage without setLoading(true).
SendAcceptNoFlag ==
    /\ input' = <<>>
    /\ sends' = Append(sends, NewSend(Trim(input)))
    /\ UNCHANGED <<messages, loading, toasts, consoleLog>>

\* sendMessage with const userMessage = input.
SendAcceptNoTrim ==
    /\ input' = <<>>
    /\ loading' = TRUE
    /\ sends' = Append(sends, NewSend(input))
    /\ UNCHANGED <<messages, toasts, consoleLog>>

\* sendMessage without setInput('').
SendAcceptNoClear ==
    /\ loading' = TRUE
    /\ sends' = Append(sends, NewSend(Trim(input)))
    /\ UNCHANGED <<messages, input, toasts, consoleLog>>

\* sendMessage past its guard, up to the first await: the input is cleared,
\* the sending state entered and the insert of the user message issued.
SendAccept ==
    /\ input' = <<>>
    /\ loading' = TRUE
    /\ sends' = Append(sends, NewSend(Trim(input)))
    /\ UNCHANGED <<messages, toasts, consoleLog>>

\* sendMessage returning at its guard.
SendReturn ==
    UNCHANGED <<messages, input, loading, toasts, consoleLog, sends>>

\* sendMessage is invoked (the button's onClick, or Enter in the input); the
\* controls exist once the loading screen is gone.
SendMessage ==
    /\ ControlsRendered
    /\ nReq < MaxRequests
    /\ nReq' = nReq + 1
    /\ lastReq' = [kind |-> Kind(input), busy |-> loading,
                   accepted |-> ~SendRejected(input, loading)]
    /\ IF SendRejected(input, loading)
       THEN SendReturn /\ UNCHANGED atAccept
       ELSE SendAccept /\ atAccept' = Snapshot
    /\ UNCHANGED <<loadingMessages, store, load, storeLog>>

\* saveMessage: the row the insert of send i asks for.
InsertedRow(i) ==
    Row(NextId(store), user,
        IF sends[i].pc = "user_sent" THEN "user" ELSE "assistant",
        IF sends[i].pc = "user_sent"
        THEN sends[i].userMessage ELSE sends[i].aiResponse,
        Now(store))

Replied(pc) == IF pc = "user_sent" THEN "user_replied" ELSE "assistant_replied"

\* The store performs the insert of send i and returns the new row.
StoreInsert(i) ==
    /\ sends[i].pc \in {"user_sent", "assistant_sent"}
    /\ store' = store \cup {InsertedRow(i)}
    /\ sends' = [sends EXCEPT ![i].pc = Replied(@),
                              ![i].reply = [data |-> InsertedRow(i),
                                            error |-> FALSE]]
    /\ storeLog' = Append(storeLog, [role |-> InsertedRow(i).role, ok |-> TRUE])
    /\ UNCHANGED <<messages, input, loading, loadingMessages, toasts,
                   consoleLog, load, nReq, lastReq, atAccept>>

\* The store refuses the insert of send i.
StoreInsertError(i) ==
    /\ sends[i].pc \in {"user_sent", "assistant_sent"}
    /\ sends' = [sends EXCEPT ![i].pc = Replied(@),
                              ![i].reply = [data |-> NoMsg, error |-> TRUE]]
    /\ storeLog' = Append(storeLog, [role |-> InsertedRow(i).role, ok |-> FALSE])
    /\ UNCHANGED <<messages, input, loading, loadingMessages, toasts,
                   consoleLog, store, load, nReq, lastReq,
                   atAccept>>

\* sendMessage issuing the assistant insert without having appended the
\* user row.
SendAfterUserDeferred(i) ==
    /\ \E r \in RandomIndexes :
          sends' = [sends EXCEPT
                      ![i].pc = "assistant_sent",
                      ![i].userMsg = sends[i].reply.data,
                      ![i].aiResponse =
                          generateAIResponse(sends[i].userMessage, r)]
    /\ UNCHANGED <<messages, loading, toasts, consoleLog>>

\* The user row came back: it is appended, the reply generated and its
\* insert issued.
SendAfterUser(i) ==
    /\ \E r \in RandomIndexes :
          sends' = [sends EXCEPT
                      ![i].pc = "assistant_sent",
                      ![i].userMsg = sends[i].reply.data,
                      ![i].aiResponse =
                          generateAIResponse(sends[i].userMessage, r)]
    /\ messages' = AppendMessage(messages, sends[i].reply.data)
    /\ UNCHANGED <<loading, toasts, consoleLog>>

\* sendMessage with setLoading(false) missing after the assistant row.
SendAfterAssistantNoReset(i) ==
    /\ sends' = [sends EXCEPT ![i].pc = "done",
                              ![i].assistantMsg = sends[i].reply.data]
    /\ messages' = AppendMessage(messages, sends[i].reply.data)
    /\ UNCHANGED <<loading, toasts, consoleLog>>

\* sendMessage without the setMessages call for the assistant row.
SendAfterAssistantNoAppend(i) ==
    /\ sends' = [sends EXCEPT ![i].pc = "done",
                              ![i].assistantMsg = sends[i].reply.data]
    /\ loading' = FALSE
    /\ UNCHANGED <<messages, toasts, consoleLog>>

\* The assistant row came back: it is appended and the sending state left.
SendAfterAssistant(i) ==
    /\ sends' = [sends EXCEPT ![i].pc = "done",
                              ![i].assistantMsg = sends[i].reply.data]
    /\ messages' = AppendMessage(messages, sends[i].reply.data)
    /\ loading' = FALSE
    /\ UNCHANGED <<toasts, consoleLog>>

\* saveMessage swallowing the error of the user insert: the send goes on.
SendCatchSwallow(i) ==
    IF sends[i].pc = "user_replied"
    THEN SendAfterUser(i)
    ELSE /\ sends' = [sends EXCEPT ![i].pc = "done"]
         /\ consoleLog' = consoleLog \o
                          <<"Error saving message:", "Error sending message:">>
         /\ toasts' = Append(toasts, "Failed to send message")
         /\ loading' = FALSE
         /\ UNCHANGED messages

\* sendMessage's catch taking back the messages appended by the send.
SendCatchRollback(i) ==
    /\ sends' = [sends EXCEPT ![i].pc = "done"]
    /\ consoleLog' = consoleLog \o
                     <<"Error saving message:", "Error sending message:">>
    /\ toasts' = Append(toasts, "Failed to send message")
    /\ loading' = FALSE
    /\ messages' = atAccept.messages

\* sendMessage's catch without the toast.
SendCatchNoToast(i) ==
    /\ sends' = [sends EXCEPT ![i].pc = "done"]
    /\ consoleLog' = consoleLog \o
                     <<"Error saving message:", "Error sending message:">>
    /\ loading' = FALSE
    /\ UNCHANGED <<messages, toasts>>

\* sendMessage with setLoading(false) at the end of the try block.
SendCatchNoFinally(i) ==
    /\ sends' = [sends EXCEPT ![i].pc = "done"]
    /\ consoleLog' = consoleLog \o
                     <<"Error saving message:", "Error sending message:">>
    /\ toasts' = Append(toasts, "Failed to send message")
    /\ UNCHANGED <<messages, loading>>

\* An insert failed: saveMessage logs and rethrows, sendMessage's catch logs
\* and raises the toast, its finally leaves the sending state.
SendCatch(i) ==
    /\ sends' = [sends EXCEPT ![i].pc = "done"]
    /\ consoleLog' = consoleLog \o
                     <<"Error saving message:", "Error sending message:">>
    /\ toasts' = Append(toasts, "Failed to send message")
    /\ loading' = FALSE
    /\ UNCHANGED messages

\* sendMessage resumes after one of its two awaits.
SendResume(i) ==
    /\ sends[i].pc \in {"user_replied", "assistant_replied"}
    /\ IF sends[i].reply.error
       THEN SendCatch(i)
       ELSE IF sends[i].pc = "user_replied"
       THEN SendAfterUser(i)
       ELSE SendAfterAssistant(i)
    /\ UNCHANGED <<input, loadingMessages, store, load, storeLog,
                   nReq, lastReq, atAccept>>

Next ==
    \/ LoadMessages
    \/ StoreSelect
    \/ StoreSelectError
    \/ LoadResume
    \/ \E t \in Texts : Type(t)
    \/ SendMessage
    \/ \E i \in 1..Len(sends) : StoreInsert(i)
    \/ \E i \in 1..Len(sends) : StoreInsertError(i)
    \/ \E i \in 1..Len(sends) : SendResume(i)

Spec == Init /\ [][Next]_vars

\* The store answering a request it was sent, and the continuation of an
\* await running once its reply is there.
StoreAnswersSelect == StoreSelect \/ StoreSelectError
StoreAnswersInsert ==
    \E i \in 1..Len(sends) : StoreInsert(i) \/ StoreInsertError(i)
Resumes == \E i \in 1..Len(sends) : SendResume(i)

\* Spec for runs in which the mount effect runs, every store call returns
\* (with rows or with an error) and every continuation whose reply has come
\* gets to run.
FairSpec ==
    /\ Spec
    /\ WF_vars(LoadMessages)
    /\ WF_vars(StoreAnswersSelect)
    /\ WF_vars(LoadResume)
    /\ WF_vars(StoreAnswersInsert)
    /\ WF_vars(Resumes)

\* ------------------------------------------- the response generator alone
\* generateAIResponse called on its own, as at line 121 of sendMessage but
\* on any string: the argument and the result are the locals userMessage and
\* aiResponse of one sendMessage record.
\* Arguments are made of at most MaxPieces pieces.
MaxPieces == 2

Run(n, c) == [k \in 1..n |-> c]

\* Trigger phrases in other letter cases and inside other words, text with
\* no trigger, and runs that add up to lengths around the threshold.
Pieces ==
    {<<"H","E","L","L","O">>,
     <<"T","h","i","s">>,
     <<"H","o","w"," ","A","r","e"," ","Y","o","u">>,
     <<"w","h","a","t"," ","c","a","n"," ","y","o","u"," ","d","o">>,
     <<" ","o","k"," ">>,
     Run(LengthThreshold \div 2, "a"),
     Run(LengthThreshold \div 2 + 1, "b")}

RECURSIVE Concats(_)
Concats(n) ==
    IF n = 0 THEN {<<>>}
    ELSE LET shorter == Concats(n - 1)
         IN  shorter \cup {a \o b : a \in shorter, b \in Pieces}

GenInputs == Concats(MaxPieces)

GenInit ==
    /\ messages = <<>>
    /\ input = <<>>
    /\ loading = FALSE
    /\ loadingMessages = FALSE
    /\ toasts = <<>>
    /\ consoleLog = <<>>
    /\ store = EmptyStore
    /\ load = [pc |-> "done", data |-> <<>>, error |-> FALSE]
    /\ \E t \in GenInputs :
          sends = <<[NewSend(t) EXCEPT !.pc = "generating"]>>
    /\ storeLog = <<>>
    /\ nReq = 0
    /\ lastReq = NoReq
    /\ atAccept = [messages |-> <<>>, mine |-> {}, toasts |-> <<>>,
                   storeLog |-> 0, input |-> <<>>]

\* const aiResponse = await generateAIResponse(userMessage);
Generate(r) ==
    /\ sends[1].pc = "generating"
    /\ sends' = [sends EXCEPT
                   ![1].pc = "generated",
                   ![1].aiResponse = generateAIResponse(sends[1].userMessage, r)]
    /\ UNCHANGED <<messages, input, loading, loadingMessages, toasts,
                   consoleLog, store, load, storeLog, nReq, lastReq,
                   atAccept>>

GenNext == \E r \in RandomIndexes : Generate(r)

GenSpec == GenInit /\ [][GenNext]_vars

\* ================================================================== claims
\* The send accepted last, the sends not yet finished, and what the store
\* has done since the last send was accepted.
Last == sends[Len(sends)]
InFlight == {i \in 1..Len(sends) : sends[i].pc # "done"}
LastDone == sends # <<>> /\ Last.pc = "done"
SinceAccept == SubSeq(storeLog, atAccept.storeLog + 1, Len(storeLog))
NewRows == {r \in store : r.user_id = user} \ atAccept.mine
SendFailedToast == "Failed to send message"
LoadFailedToast == "Failed to load messages"
UserOk == [role |-> "user", ok |-> TRUE]
UserErr == [role |-> "user", ok |-> FALSE]
AssistantOk == [role |-> "assistant", ok |-> TRUE]
AssistantErr == [role |-> "assistant", ok |-> FALSE]

\* Everything but the history of sendMessage invocations.
programState == <<messages, input, loading, loadingMessages, toasts,
                  consoleLog, store, load, sends, storeLog>>

\* C1: when a send has finished and both of its inserts succeeded, the
\* sequence is the sequence at acceptance followed by the row the store
\* returned for the user message and then the row it returned for the
\* assistant message, and by nothing else.
C1_SendAppendsUserThenAssistant ==
    (LastDone /\ SinceAccept = <<UserOk, AssistantOk>>) =>
        \E u \in NewRows : \E a \in NewRows :
            /\ NewRows = {u, a}
            /\ u.role = "user"
            /\ a.role = "assistant"
            /\ messages = atAccept.messages \o <<u, a>>

\* A send with non-blank padded text, accepted when messages were already
\* present, has finished with both inserts done.
C1_Witness ==
    /\ LastDone
    /\ SinceAccept = <<UserOk, AssistantOk>>
    /\ atAccept.messages # <<>>
    /\ atAccept.input = PaddedOk
    /\ Len(messages) = Len(atAccept.messages) + 2

\* C2: at most one send is in flight, the sending flag is set exactly while
\* one is, and an invocation of sendMessage made while a send is in flight
\* changes nothing: no insert is issued, nothing is appended, and no call is
\* recorded for later.
C2_SingleFlight ==
    /\ [](Cardinality(InFlight) <= 1 /\ (loading <=> InFlight # {}))
    /\ [][(nReq' # nReq /\ InFlight # {}) => UNCHANGED programState]_vars

\* sendMessage was invoked while a send was in flight, and that send is
\* still in flight.
C2_Witness ==
    /\ nReq >= 2
    /\ lastReq.busy
    /\ ~lastReq.accepted
    /\ Cardinality(InFlight) = 1

\* C3: an invocation of sendMessage with an empty or whitespace-only input
\* leaves the sequence, the input, the sending flag, the toasts, the store
\* and the set of issued requests as they were.
C3_BlankSendIsNoOp ==
    [][(nReq' # nReq /\ Trim(input) = <<>>) => UNCHANGED programState]_vars

\* sendMessage was invoked with a whitespace-only input while nothing was
\* in flight.
C3_Witness ==
    /\ nReq >= 1
    /\ lastReq.kind = "whitespace"
    /\ ~lastReq.busy
    /\ ~lastReq.accepted
    /\ input = BlankText

\* C4: when a send has finished whose user insert succeeded and whose
\* assistant insert failed, the sequence has gained exactly the user row,
\* that row is still in the store, the store was asked exactly twice, one
\* failure toast was raised and the sending flag is cleared.
C4_AssistantInsertFails ==
    (LastDone /\ Len(SinceAccept) >= 2
              /\ SinceAccept[1] = UserOk /\ SinceAccept[2] = AssistantErr) =>
        /\ SinceAccept = <<UserOk, AssistantErr>>
        /\ \E u \in NewRows :
              /\ NewRows = {u}
              /\ u.role = "user"
              /\ messages = atAccept.messages \o <<u>>
        /\ toasts = Append(atAccept.toasts, SendFailedToast)
        /\ ~loading

\* A send has finished after its assistant insert failed.
C4_Witness ==
    /\ LastDone
    /\ SinceAccept = <<UserOk, AssistantErr>>
    /\ Len(messages) = Len(atAccept.messages) + 1

\* C5: once the user insert of a send has failed, no further insert is
\* issued for it, the sequence and the user's rows in the store stay as they
\* were at acceptance, and when the send has finished one failure toast was
\* raised and the sending flag is cleared.
C5_UserInsertFails ==
    (sends # <<>> /\ SinceAccept # <<>> /\ SinceAccept[1] = UserErr) =>
        /\ SinceAccept = <<UserErr>>
        /\ Last.pc \in {"user_replied", "done"}
        /\ messages = atAccept.messages
        /\ NewRows = {}
        /\ Last.pc = "done" =>
              /\ toasts = Append(atAccept.toasts, SendFailedToast)
              /\ ~loading

\* A send has finished after its user insert failed.
C5_Witness ==
    /\ LastDone
    /\ SinceAccept = <<UserErr>>
    /\ ~loading

\* C6: once the load has succeeded (and before any send), the sequence
\* holds each of the user's rows in the store exactly once and no other row,
\* in strictly ascending created_at order; with no such row it is empty and
\* no toast was raised; the loading state is left.
C6_LoadReplacesWithStoreOrder ==
    (load.pc = "done" /\ ~load.error /\ sends = <<>>) =>
        /\ {messages[k] : k \in 1..Len(messages)} =
               {r \in store : r.user_id = user}
        /\ Len(messages) = Cardinality({r \in store : r.user_id = user})
        /\ \A j \in 1..Len(messages) : \A k \in 1..Len(messages) :
               j < k => messages[j].created_at < messages[k].created_at
        /\ {r \in store : r.user_id = user} = {} =>
               messages = <<>> /\ toasts = <<>>
        /\ ~loadingMessages

\* The load has succeeded on a store holding two rows of the user and a row
\* of another account.
C6_Witness ==
    /\ load.pc = "done"
    /\ ~load.error
    /\ sends = <<>>
    /\ Len(messages) = 2
    /\ store = MixedStore

C8_LoadFailure ==
    (load.pc = "done" /\ load.error /\ sends = <<>>) =>
        /\ messages = <<>>
        /\ toasts = <<LoadFailedToast>>
        /\ ~loadingMessages

\* The load has failed although the store holds rows of the user.
C8_Witness ==
    /\ load.pc = "done"
    /\ load.error
    /\ sends = <<>>
    /\ store = MixedStore
    /\ ~loadingMessages

\* C9: whenever a failure has been reported and no call is outstanding, the
\* controller is neither loading nor sending and sendMessage accepts any
\* non-blank input; and a send accepted after a failure whose two inserts
\* succeed appends its two rows as usual.
C9_NoErrorIsFatal ==
    /\ (toasts # <<>> /\ load.pc = "done" /\ InFlight = {}) =>
           /\ ~loading
           /\ ~loadingMessages
           /\ \A t \in Texts : Trim(t) # <<>> => ~SendRejected(t, loading)
    /\ (LastDone /\ atAccept.toasts # <<>>
                 /\ SinceAccept = <<UserOk, AssistantOk>>) =>
           \E u \in NewRows : \E a \in NewRows :
               /\ u.role = "user"
               /\ a.role = "assistant"
               /\ messages = atAccept.messages \o <<u, a>>

\* After a failed load and a failed send, a further send has been accepted
\* and has finished with both inserts done.
C9_Witness ==
    /\ LastDone
    /\ atAccept.toasts = <<LoadFailedToast, SendFailedToast>>
    /\ SinceAccept = <<UserOk, AssistantOk>>
    /\ Len(messages) = Len(atAccept.messages) + 2
    /\ ~loading

\* Inputs containing "hello" in some letter case, alone and between other
\* text, the other trigger phrases among it.
HelloSpellings ==
    {Hello, <<"H","E","L","L","O">>, <<"H","e","l","l","O">>, HelloThere}
Fillers ==
    {<<>>, <<" ">>, Hi, HowAreYou, WhatCanYouDo,
     <<"H","O","W"," ","A","R","E"," ","Y","O","U","?">>, <<"o","k"," ">>}
HelloInputs ==
    {a \o h \o b : a \in Fillers, h \in HelloSpellings, b \in Fillers}

\* The generator on every such input and on the texts typed, for every index
\* it can draw.
HelloAlwaysGreets ==
    \A t \in HelloInputs \cup Texts : \A r \in RandomIndexes :
        Includes(ToLowerCase(t), Hello) =>
            generateAIResponse(t, r) = GreetingReply

\* C10: the generator answers every input containing "hello" in any letter
\* case with the greeting, whatever index is drawn and whatever else the
\* input contains; every reply generated in a send for such a text is the
\* greeting; and once "Hello there" has been sent from an empty conversation
\* with both inserts done, the sequence has length 2, its first entry is the
\* user row with that text and its second the assistant row with the
\* greeting.
C10_HelloYieldsGreeting ==
    /\ HelloAlwaysGreets
    /\ \A i \in 1..Len(sends) :
           (sends[i].pc \in {"assistant_sent", "assistant_replied", "done"}
            /\ sends[i].userMsg # NoMsg
            /\ Includes(ToLowerCase(sends[i].userMessage), Hello)) =>
               sends[i].aiResponse = GreetingReply
    /\ (LastDone /\ atAccept.input = HelloThere /\ atAccept.messages = <<>>
                 /\ SinceAccept = <<UserOk, AssistantOk>>) =>
           /\ Len(messages) = 2
           /\ messages[1].role = "user"
           /\ messages[1].content = HelloThere
           /\ messages[2].role = "assistant"
           /\ messages[2].content = GreetingReply

\* "Hello there" has been sent from an empty conversation and both inserts
\* are done.
C10_Witness ==
    /\ LastDone
    /\ atAccept.input = HelloThere
    /\ atAccept.messages = <<>>
    /\ SinceAccept = <<UserOk, AssistantOk>>
    /\ Len(messages) = 2

\* The triggers in the order of their tests, each with its reply.
TriggerTable ==
    <<[phrases |-> {Hello, Hi}, reply |-> GreetingReply],
      [phrases |-> {HowAreYou}, reply |-> HowAreYouReply],
      [phrases |-> {WhatCanYouDo}, reply |-> WhatCanYouDoReply]>>

\* The triggers a text matches: some phrase of the trigger is a substring of
\* the text, letter case ignored.
Matching(t) ==
    {k \in 1..Len(TriggerTable) :
        \E ph \in TriggerTable[k].phrases : Includes(ToLowerCase(t), ph)}

Min(S) == CHOOSE x \in S : \A y \in S : x <= y

\* The calls of the generator that have returned.
Generated == {i \in 1..Len(sends) : sends[i].aiResponse # <<>>}

\* C11: for a text matching at least one trigger, the reply is the fixed
\* reply of the first matching trigger in the order greeting, "how are you",
\* "what can you do", whatever index was drawn.
C11_FirstTriggerWins ==
    \A i \in Generated :
        Matching(sends[i].userMessage) # {} =>
            sends[i].aiResponse =
                TriggerTable[Min(Matching(sends[i].userMessage))].reply

\* The generator has answered a text holding "How Are You" and "what can
\* you do" and no greeting.
C11_Witness ==
    /\ Generated # {}
    /\ Matching(sends[1].userMessage) = {2, 3}
    /\ sends[1].aiResponse = HowAreYouReply

\* C12: for a text matching no trigger, the reply is one of the openers, a
\* space, and the short clause when the text has at most LengthThreshold
\* characters, the detailed clause when it has more.
C12_GenericReplyByLength ==
    \A i \in Generated :
        Matching(sends[i].userMessage) = {} =>
            \E k \in 1..Len(responses) :
                sends[i].aiResponse =
                    responses[k] \o <<" ">> \o
                    (IF Len(sends[i].userMessage) <= LengthThreshold
                     THEN ShortClause ELSE DetailedClause)

\* The generator has answered a text of exactly LengthThreshold characters
\* that matches no trigger.
C12_Witness ==
    /\ Generated # {}
    /\ Matching(sends[1].userMessage) = {}
    /\ Len(sends[1].userMessage) = LengthThreshold
    /\ \E k \in 1..Len(responses) :
          sends[1].aiResponse = responses[k] \o <<" ">> \o ShortClause

\* A text of LengthThreshold + 1 characters that matches no trigger has got
\* the detailed clause.
C12_WitnessAbove ==
    /\ Generated # {}
    /\ Matching(sends[1].userMessage) = {}
    /\ Len(sends[1].userMessage) = LengthThreshold + 1
    /\ \E k \in 1..Len(responses) :
          sends[1].aiResponse = responses[k] \o <<" ">> \o DetailedClause

\* The sends whose insert request is with the store.
Outstanding == {i \in 1..Len(sends) :
                   sends[i].pc \in {"user_sent", "assistant_sent"}}

\* C13: while the assistant insert of a send is issued, the user insert of
\* that send has been answered with a row that is in the store and in the
\* sequence; the store is asked for the user row first and for the assistant
\* row only after it returned the user row; one request at most is with the
\* store; and an assistant row of a send is younger than its user row.
C13_StrictlySequential ==
    /\ \A i \in 1..Len(sends) :
          sends[i].pc \in {"assistant_sent", "assistant_replied"} =>
              /\ sends[i].userMsg \in store
              /\ sends[i].userMsg.role = "user"
              /\ \E k \in 1..Len(messages) : messages[k] = sends[i].userMsg
    /\ sends # <<>> =>
          /\ Len(SinceAccept) <= 2
          /\ SinceAccept # <<>> => SinceAccept[1].role = "user"
          /\ Len(SinceAccept) = 2 =>
                SinceAccept[1] = UserOk /\ SinceAccept[2].role = "assistant"
    /\ Cardinality(Outstanding) <= 1
    /\ \A a \in NewRows :
          a.role = "assistant" =>
              \E u \in NewRows :
                  u.role = "user" /\ u.created_at < a.created_at

\* The assistant insert of a send is with the store, after its user row was
\* stored and appended.
C13_Witness ==
    /\ sends # <<>>
    /\ Last.pc = "assistant_sent"
    /\ SinceAccept = <<UserOk>>
    /\ messages = Append(atAccept.messages, Last.userMsg)

IsPrefix(a, b) == Len(a) <= Len(b) /\ SubSeq(b, 1, Len(a)) = a

\* C14: a step changes the sequence only as the load's resumption, setting
\* it to the rows of the reply, or as a step of a send, adding one entry at
\* its end; a step of a send leaves every entry present before it in place
\* and unaltered.
C14_ReplaceOrAppendOnly ==
    [][/\ messages' # messages =>
             \/ /\ load.pc = "replied"
                /\ load'.pc = "done"
                /\ messages' = load.data
             \/ /\ sends' # sends
                /\ Len(messages') = Len(messages) + 1
                /\ IsPrefix(messages, messages')
       /\ sends' # sends => IsPrefix(messages, messages')]_vars

\* A send has appended to a sequence the load had filled, and has then
\* failed at its assistant insert.
C14_Witness ==
    /\ load.pc = "done"
    /\ ~load.error
    /\ Len(load.data) = 2
    /\ LastDone
    /\ SinceAccept = <<UserOk, AssistantErr>>
    /\ Len(messages) = 3

\* The user's rows in the store.
Mine == {r \in store : r.user_id = user}

\* C15: after a successful load the sequence is strictly ascending in
\* created_at, holds only rows of the user that are in the store, and every
\* such row missing from it is younger than all its entries; with no send in
\* flight no such row is missing.
C15_SequenceReflectsStoreOrder ==
    (load.pc = "done" /\ ~load.error) =>
        /\ \A j \in 1..Len(messages) : \A k \in 1..Len(messages) :
               j < k => messages[j].created_at < messages[k].created_at
        /\ \A k \in 1..Len(messages) : messages[k] \in Mine
        /\ \A r \in Mine :
               (\A k \in 1..Len(messages) : messages[k] # r) =>
                   \A k \in 1..Len(messages) :
                       messages[k].created_at < r.created_at
        /\ InFlight = {} => Len(messages) = Cardinality(Mine)

\* After a load that returned rows, a send has finished with both inserts
\* done.
C15_Witness ==
    /\ load.pc = "done"
    /\ ~load.error
    /\ load.data # <<>>
    /\ LastDone
    /\ SinceAccept = <<UserOk, AssistantOk>>
    /\ Len(messages) = Len(load.data) + 2
    /\ InFlight = {}

\* A row of the user is in the store and not yet in the sequence.
C15_WitnessPrefix ==
    /\ load.pc = "done"
    /\ ~load.error
    /\ Len(messages) < Cardinality(Mine)

\* The sends whose reply has come and whose continuation has not yet run.
Resumable == {i \in 1..Len(sends) :
                 sends[i].pc \in {"user_replied", "assistant_replied"}}

\* C16: when every store call returns, the loading state is eventually left
\* and every sending state is eventually left; and while the controller is
\* sending, a request of the send is with the store or its reply is waiting
\* to be handled.
C16_LoadingAndSendingEnd ==
    /\ <>(~loadingMessages)
    /\ loading ~> ~loading
    /\ [](loading => Outstanding # {} \/ Resumable # {})

\* A send has left the sending state after its user insert failed, after a
\* load that failed.
C16_Witness ==
    /\ load.pc = "done"
    /\ load.error
    /\ ~loadingMessages
    /\ LastDone
    /\ SinceAccept = <<UserErr>>
    /\ toasts = <<LoadFailedToast, SendFailedToast>>
    /\ ~loading

\* What the generator can return for a text.
GenOutputs(t) == {generateAIResponse(t, r) : r \in RandomIndexes}

\* C17: the text of an accepted send is not blank; the row its user insert
\* asks for, and the user row it stored, carry the input trimmed; the row
\* its assistant insert asks for, and the assistant row it stored, carry a
\* string the generator returns for that trimmed input.
C17_InsertedContents ==
    sends # <<>> =>
        /\ Trim(atAccept.input) # <<>>
        /\ Last.pc = "user_sent" =>
              /\ InsertedRow(Len(sends)).role = "user"
              /\ InsertedRow(Len(sends)).content = Trim(atAccept.input)
        /\ Last.pc = "assistant_sent" =>
              /\ InsertedRow(Len(sends)).role = "assistant"
              /\ InsertedRow(Len(sends)).content
                     \in GenOutputs(Trim(atAccept.input))
        /\ \A r \in NewRows :
              /\ r.role = "user" => r.content = Trim(atAccept.input)
              /\ r.role = "assistant" =>
                     r.content \in GenOutputs(Trim(atAccept.input))

\* " ok " has been sent from an empty conversation and both rows are stored.
C17_Witness ==
    /\ LastDone
    /\ atAccept.input = PaddedOk
    /\ atAccept.messages = <<>>
    /\ SinceAccept = <<UserOk, AssistantOk>>
    /\ Cardinality(NewRows) = 2

\* C18: while a send is in flight the input is empty and the sending flag
\* set, from the moment its first insert is issued; a step taken while a
\* send is in flight, the one finishing it on a failure included, leaves the
\* input empty.
C18_InputClearedWhileSending ==
    /\ [](InFlight # {} => input = <<>> /\ loading)
    /\ [][InFlight # {} => input' = <<>>]_vars

\* A send of "HELLO how are you" has failed at its user insert and the input
\* is empty.
C18_Witness ==
    /\ LastDone
    /\ atAccept.input = ShoutedHello
    /\ SinceAccept = <<UserErr>>
    /\ input = <<>>

\* C19: while the load is outstanding the controls are not there: nothing
\* is typed, sendMessage is not invoked, no send exists and the sequence is
\* empty; so the load's resumption replaces an empty sequence.
C19_NoSendBeforeLoadEnds ==
    /\ [](load.pc # "done" =>
             /\ loadingMessages
             /\ input = <<>>
             /\ nReq = 0
             /\ sends = <<>>
             /\ messages = <<>>)
    /\ [][(load.pc = "replied" /\ load'.pc = "done") =>
             sends = <<>> /\ messages = <<>>]_vars

\* The load has filled the sequence and a send has since added to it.
C19_Witness ==
    /\ load.pc = "done"
    /\ ~load.error
    /\ load.data # <<>>
    /\ sends # <<>>
    /\ Len(messages) = Len(load.data) + 1
    /\ IsPrefix(load.data, messages)

\* The length of the sequence the load produced.
LoadedLen == IF load.pc = "done" /\ ~load.error THEN Len(load.data) ELSE 0

\* C20: every entry of role assistant added to the sequence by a send has,
\* directly before it, an entry added in the session that is the user row of
\* the same send.
C20_AssistantFollowsItsUser ==
    \A k \in (LoadedLen + 1)..Len(messages) :
        messages[k].role # "user" =>
            /\ k - 1 > LoadedLen
            /\ messages[k - 1].role = "user"
            /\ \E i \in 1..Len(sends) :
                  /\ sends[i].userMsg = messages[k - 1]
                  /\ sends[i].assistantMsg = messages[k]

\* A first send failed at its assistant insert and left its user row
\* unpaired; a second send has added its user row and its assistant row.
C20_Witness ==
    /\ Len(sends) = 2
    /\ LastDone
    /\ sends[1].userMsg # NoMsg
    /\ sends[1].assistantMsg = NoMsg
    /\ SinceAccept = <<UserOk, AssistantOk>>
    /\ Len(messages) = LoadedLen + 3
    /\ messages[LoadedLen + 1].role = "user"
    /\ messages[LoadedLen + 2].role = "user"
    /\ messages[LoadedLen + 3].role = "assistant"

====
